---- MODULE Spec2Model ----
(***************************************************************************)
(* Liquid State Analyzer: the LiquidAnalyzer class (liquid_analyzer.py),   *)
(* the terminal program main() and the Flask server (main_server.py).      *)
(*                                                                         *)
(* Numbers are fixed point: temperatures in hundredths of a degree         *)
(* Celsius, pressures in hundredths of an atmosphere (100 is 1.0 atm).     *)
(* Python values are tagged records [t, v]: "float", "str", "dict" (a      *)
(* sequence of [k, v] items in insertion order) and "list".  A str is a    *)
(* sequence of chunks [a, u]: ASCII text a followed by one non-ASCII code  *)
(* point u (0: none).  JSON text is a tree of nodes [j, c] whose leaves    *)
(* are the characters json.dump writes.                                    *)
(***************************************************************************)
EXTENDS Integers, Sequences, FiniteSets, TLC

VARIABLES
    mode,          \* "classify" | "terminal" | "server": which program runs
    catalogFile,   \* liquids_data.json
    resultsFile,   \* analysis_results.json
    webFile,       \* web_results.html
    analyzer,      \* the process's LiquidAnalyzer (None until constructed)
    prompter,      \* the LiquidAnalyzer that get_user_input constructs
    pc,            \* position of main() / of the server module
    locals,        \* main()'s temperature, pressure, liquid_type, results
    iter,          \* prompt-loop iterations started
    clock,         \* datetime.datetime.now(), in seconds
    io,            \* opens of liquids_data.json: [reads, writes]
    req,           \* server: the analyze/liquids requests in flight
    call           \* classify: one call of analyze_liquid_state and its outcome

vars == <<mode, catalogFile, resultsFile, webFile, analyzer, prompter, pc,
          locals, iter, clock, io, req, call>>

----------------------------------------------------------------------------
(* Python values *)

PyFloat(n) == [t |-> "float", v |-> n]

PyStr(a) == [t |-> "str", v |-> <<[a |-> a, u |-> 0]>>]

PyStrU(chunks) == [t |-> "str", v |-> chunks]

PyDict(items) == [t |-> "dict", v |-> items]

PyList(items) == [t |-> "list", v |-> items]

None == [t |-> "None", v |-> 0]

Item(k, v) == [k |-> k, v |-> v]

\* key in d, for a dict
HasKey(d, k) == \E i \in 1..Len(d.v) : d.v[i].k = k

\* d[k], for a dict that has k
Get(d, k) == d.v[CHOOSE i \in 1..Len(d.v) : d.v[i].k = k].v

\* list(d.keys())
Keys(d) == [i \in 1..Len(d.v) |-> d.v[i].k]

\* d[k] = v: replaces in place, or appends
SetItem(d, k, v) ==
    IF HasKey(d, k)
    THEN PyDict([i \in 1..Len(d.v) |-> IF d.v[i].k = k THEN Item(k, v) ELSE d.v[i]])
    ELSE PyDict(Append(d.v, Item(k, v)))

\* del d[k]
DelItem(d, k) == PyDict(SelectSeq(d.v, LAMBDA it : it.k # k))

----------------------------------------------------------------------------
(* Number and string text *)

Abs(n) == IF n < 0 THEN -n ELSE n

DigitChars == <<"0", "1", "2", "3", "4", "5", "6", "7", "8", "9">>

HexChars == DigitChars \o <<"a", "b", "c", "d", "e", "f">>

DigitVal(c) == (CHOOSE i \in 1..16 : HexChars[i] = c) - 1

RECURSIVE DigitsOf(_)
DigitsOf(m) ==
    IF m < 10 THEN <<DigitChars[m + 1]>>
    ELSE DigitsOf(m \div 10) \o <<DigitChars[(m % 10) + 1]>>

RECURSIVE ValueOf(_, _)
\* the number a sequence of digit characters denotes in the given base
ValueOf(cs, base) ==
    IF cs = <<>> THEN 0
    ELSE ValueOf(SubSeq(cs, 1, Len(cs) - 1), base) * base + DigitVal(cs[Len(cs)])

\* a repr that loses the sign
FloatReprUnsigned(n) ==
    LET m == Abs(n)
        frac == m % 100
    IN  DigitsOf(m \div 100) \o <<".">>
        \o (IF frac % 10 = 0 THEN <<DigitChars[(frac \div 10) + 1]>>
            ELSE <<DigitChars[(frac \div 10) + 1], DigitChars[(frac % 10) + 1]>>)

\* repr(float), as json.dump writes it: sign, integer part, ".", and the
\* shortest fraction that reads back (one digit, or two)
FloatRepr(n) ==
    LET m == Abs(n)
        frac == m % 100
    IN  (IF n < 0 THEN <<"-">> ELSE <<>>)
        \o DigitsOf(m \div 100) \o <<".">>
        \o (IF frac % 10 = 0 THEN <<DigitChars[(frac \div 10) + 1]>>
            ELSE <<DigitChars[(frac \div 10) + 1], DigitChars[(frac % 10) + 1]>>)

\* float(text), as json.load reads a number
FloatParse(cs) ==
    LET neg  == cs # <<>> /\ cs[1] = "-"
        body == IF neg THEN Tail(cs) ELSE cs
        dot  == CHOOSE i \in 1..Len(body) : body[i] = "."
        ip   == SubSeq(body, 1, dot - 1)
        fp   == SubSeq(body, dot + 1, Len(body))
        m    == ValueOf(ip, 10) * 100
                + (IF Len(fp) = 1 THEN ValueOf(fp, 10) * 10 ELSE ValueOf(fp, 10))
    IN  IF neg THEN -m ELSE m

\* the four hex digits of a \uXXXX escape
Hex4(u) ==
    <<HexChars[((u \div 4096) % 16) + 1], HexChars[((u \div 256) % 16) + 1],
      HexChars[((u \div 16) % 16) + 1], HexChars[(u % 16) + 1]>>

\* json.dump of a str (ensure_ascii): ASCII kept, a non-ASCII character escaped
StrEscape(chunks) ==
    [i \in 1..Len(chunks) |->
        [a |-> chunks[i].a,
         esc |-> IF chunks[i].u = 0 THEN <<>> ELSE Hex4(chunks[i].u)]]

\* json.load of a string literal
StrUnescape(text) ==
    [i \in 1..Len(text) |->
        [a |-> text[i].a,
         u |-> IF text[i].esc = <<>> THEN 0 ELSE ValueOf(text[i].esc, 16)]]

RECURSIVE Join(_)
Join(cs) == IF cs = <<>> THEN "" ELSE Head(cs) \o Join(Tail(cs))

\* str(float) inside an f-string
FloatStr(n) == Join(FloatRepr(n))

----------------------------------------------------------------------------
(* JSON text *)

JNode(j, c) == [j |-> j, c |-> c]

Garbage == JNode("garbage", <<>>)

RECURSIVE JsonDump(_)
\* json.dump(value, file, indent=2)
JsonDump(x) ==
    CASE x.t = "dict"  -> JNode("obj", [i \in 1..Len(x.v) |->
                                [k |-> x.v[i].k, c |-> JsonDump(x.v[i].v)]])
      [] x.t = "list"  -> JNode("arr", [i \in 1..Len(x.v) |-> JsonDump(x.v[i])])
      [] x.t = "float" -> JNode("num", FloatRepr(x.v))
      [] x.t = "str"   -> JNode("str", StrEscape(x.v))

RECURSIVE JsonValue(_)
\* the value json.load builds from parseable text
JsonValue(n) ==
    CASE n.j = "obj" -> PyDict([i \in 1..Len(n.c) |->
                                Item(n.c[i].k, JsonValue(n.c[i].c))])
      [] n.j = "arr" -> PyList([i \in 1..Len(n.c) |-> JsonValue(n.c[i])])
      [] n.j = "num" -> PyFloat(FloatParse(n.c))
      [] n.j = "str" -> PyStrU(StrUnescape(n.c))

\* an operation's outcome: a value returned, or an exception raised
Return(v) == [exc |-> "", msg |-> "", val |-> v]

Raise(exc, msg) == [exc |-> exc, msg |-> msg, val |-> None]

\* json.load(file)
JsonLoad(text) ==
    IF text.j = "garbage"
    THEN Raise("JSONDecodeError", "Expecting value")
    ELSE Return(JsonValue(text))

\* a file: absent, or holding text
NoFile == [exists |-> FALSE, text |-> JNode("none", <<>>)]

FileOf(text) == [exists |-> TRUE, text |-> text]

----------------------------------------------------------------------------
(* class LiquidAnalyzer *)

\* 10.0 degrees per atm, in hundredths of a degree per hundredth of an atm
PressureCoeff == 10

\* 1.0 atm
StandardPressure == 100

Liquid(name, freezing_point, boiling_point) ==
    PyDict(<<Item("name", name),
             Item("freezing_point", PyFloat(freezing_point)),
             Item("boiling_point", PyFloat(boiling_point))>>)

\* "Water (H2O)" with its subscript two, U+2082
SubscriptName(before, after) ==
    PyStrU(<<[a |-> before, u |-> 8322], [a |-> after, u |-> 0]>>)

get_default_liquids ==
    PyDict(<<
        Item("water", Liquid(SubscriptName("Water (H", "O)"), 0, 10000)),
        Item("ethanol",
             Liquid(PyStrU(<<[a |-> "Ethanol (C", u |-> 8322],
                             [a |-> "H", u |-> 8325],
                             [a |-> "OH)", u |-> 0]>>), -11410, 7840)),
        Item("mercury", Liquid(PyStr("Mercury (Hg)"), -3880, 35670)),
        Item("nitrogen", Liquid(SubscriptName("Nitrogen (N", ")"), -21000, -19580)),
        Item("oxygen", Liquid(SubscriptName("Oxygen (O", ")"), -21880, -18300))>>)

\* self.flask_art: each drawing cut to its heading and its first symbol
flask_art ==
    PyDict(<<
        Item("still", PyStrU(<<[a |-> "LIQUID (Still)", u |-> 128167]>>)),
        Item("frozen", PyStrU(<<[a |-> "SOLID (Frozen)", u |-> 10052]>>)),
        Item("boiling", PyStrU(<<[a |-> "GAS (Boiling)", u |-> 128168]>>))>>)

\* save_liquid_data(data): the file afterwards
save_liquid_data(data) == FileOf(JsonDump(data))

\* a load that falls back to the defaults when the text does not parse
load_liquid_data_recovering(file) ==
    IF file.exists /\ JsonLoad(file.text).exc = ""
    THEN [out |-> JsonLoad(file.text), file |-> file, wrote |-> FALSE]
    ELSE [out |-> Return(get_default_liquids),
          file |-> save_liquid_data(get_default_liquids),
          wrote |-> TRUE]

\* load_liquid_data(): what it returns or raises, the file afterwards, and
\* whether it opened the file for writing
load_liquid_data(file) ==
    IF file.exists
    THEN [out |-> JsonLoad(file.text), file |-> file, wrote |-> FALSE]
    ELSE [out |-> Return(get_default_liquids),
          file |-> save_liquid_data(get_default_liquids),
          wrote |-> TRUE]

\* LiquidAnalyzer(): __init__ loads the data; the object is its liquids_data
NewAnalyzer(data) == [t |-> "LiquidAnalyzer", liquids_data |-> data]

get_available_liquids(self) == self.liquids_data

calculate_pressure_effect(base_boiling_point, pressure) ==
    LET pressure_difference == pressure - StandardPressure
    IN  base_boiling_point + pressure_difference * PressureCoeff

\* a rounding that truncates toward minus infinity
RoundDown(x) == (x \div 10) * 10

\* round(x, 1): to the nearest tenth, a tie to the even tenth
Round1(x) ==
    LET q == x \div 10
        r == x % 10
    IN  IF r < 5 THEN q * 10
        ELSE IF r > 5 THEN (q + 1) * 10
        ELSE IF q % 2 = 0 THEN q * 10 ELSE (q + 1) * 10

\* liquid_type in self.liquids_data
Contains(data, liquid_type) ==
    CASE data.t = "dict" -> HasKey(data, liquid_type)
      [] data.t = "list" -> \E i \in 1..Len(data.v) : data.v[i] = PyStr(liquid_type)
      [] OTHER -> FALSE

\* the checks in the other order: pressure first
CheckArgumentsPressureFirst(data, pressure, liquid_type) ==
    IF pressure <= 0
    THEN Raise("ValueError", "Pressure must be greater than 0")
    ELSE IF ~Contains(data, liquid_type)
    THEN Raise("ValueError", "Unknown liquid: " \o liquid_type)
    ELSE Return(None)

\* the pressure check alone
CheckArgumentsPressureOnly(data, pressure, liquid_type) ==
    IF pressure <= 0
    THEN Raise("ValueError", "Pressure must be greater than 0")
    ELSE Return(None)

\* lines 129-135: the two checks, in the order the code makes them
CheckArguments(data, pressure, liquid_type) ==
    IF ~Contains(data, liquid_type)
    THEN Raise("ValueError", "Unknown liquid: " \o liquid_type)
    ELSE IF pressure <= 0
    THEN Raise("ValueError", "Pressure must be greater than 0")
    ELSE Return(None)

\* lines 137-145: the record's two points and the adjusted boiling point
ReadLiquid(data, pressure, liquid_type) ==
    IF data.t # "dict"
    THEN Raise("TypeError", "list indices must be integers")
    ELSE IF ~HasKey(data, liquid_type)
    THEN Raise("KeyError", liquid_type)
    ELSE LET liquid == Get(data, liquid_type)
         IN  IF liquid.t # "dict"
             THEN Raise("TypeError", "object is not subscriptable")
             ELSE IF ~HasKey(liquid, "freezing_point")
             THEN Raise("KeyError", "freezing_point")
             ELSE IF ~HasKey(liquid, "boiling_point")
             THEN Raise("KeyError", "boiling_point")
             ELSE IF Get(liquid, "boiling_point").t # "float"
             THEN Raise("TypeError", "unsupported operand type(s) for +")
             ELSE Return([liquid |-> liquid,
                          freezing_point |-> Get(liquid, "freezing_point"),
                          base_boiling_point |-> Get(liquid, "boiling_point"),
                          actual_boiling_point |->
                              calculate_pressure_effect(
                                  Get(liquid, "boiling_point").v, pressure)])

Outcome(state, flask_state) ==
    [state |-> state, flask_state |-> flask_state, description |-> PyStr(state)]

\* the freezing comparison made strict
DecideStrictFreeze(temperature, freezing_point, actual_boiling_point) ==
    IF temperature < freezing_point THEN Outcome("SOLID", "frozen")
    ELSE IF temperature >= actual_boiling_point THEN Outcome("GAS", "boiling")
    ELSE Outcome("LIQUID", "still")

\* the boiling comparison made strict
DecideStrictBoil(temperature, freezing_point, actual_boiling_point) ==
    IF temperature <= freezing_point THEN Outcome("SOLID", "frozen")
    ELSE IF temperature > actual_boiling_point THEN Outcome("GAS", "boiling")
    ELSE Outcome("LIQUID", "still")

\* lines 147-166: state, flask_state and description
Decide(temperature, freezing_point, actual_boiling_point) ==
    IF temperature <= freezing_point
    THEN [state |-> "SOLID", flask_state |-> "frozen",
          description |-> PyStrU(<<
              [a |-> "FROZEN! Temperature " \o FloatStr(temperature), u |-> 176],
              [a |-> "C is at or below freezing point (" \o FloatStr(freezing_point),
               u |-> 176],
              [a |-> "C)", u |-> 0]>>)]
    ELSE IF temperature >= actual_boiling_point
    THEN [state |-> "GAS", flask_state |-> "boiling",
          description |-> PyStrU(<<
              [a |-> "BOILING! Temperature " \o FloatStr(temperature), u |-> 176],
              [a |-> "C is at or above boiling point ("
                     \o FloatStr(Round1(actual_boiling_point)), u |-> 176],
              [a |-> "C)", u |-> 0]>>)]
    ELSE [state |-> "LIQUID", flask_state |-> "still",
          description |-> PyStr(
              "LIQUID state! Temperature is between freezing and boiling points")]

\* lines 147-180: the decision and the dict returned
BuildResults(temperature, pressure, rec) ==
    IF rec.freezing_point.t # "float"
    THEN Raise("TypeError", "'<=' not supported")
    ELSE IF ~HasKey(rec.liquid, "name")
    THEN Raise("KeyError", "name")
    ELSE LET d == Decide(temperature, rec.freezing_point.v, rec.actual_boiling_point)
         IN  Return(PyDict(<<
                 Item("liquid_name", Get(rec.liquid, "name")),
                 Item("temperature", PyFloat(temperature)),
                 Item("pressure", PyFloat(pressure)),
                 Item("state", PyStr(d.state)),
                 Item("flask_state", PyStr(d.flask_state)),
                 Item("description", d.description),
                 Item("freezing_point", rec.freezing_point),
                 Item("boiling_point_normal", rec.base_boiling_point),
                 Item("boiling_point_actual", PyFloat(Round1(rec.actual_boiling_point))),
                 Item("flask_art", Get(flask_art, d.flask_state))>>))

\* analyze_liquid_state(temperature, pressure, liquid_type) on liquids_data
analyze_liquid_state(data, temperature, pressure, liquid_type) ==
    LET checked == CheckArguments(data, pressure, liquid_type)
        rec     == ReadLiquid(data, pressure, liquid_type)
    IN  IF checked.exc # "" THEN checked
        ELSE IF rec.exc # "" THEN rec
        ELSE BuildResults(temperature, pressure, rec.val)

\* strftime("%Y-%m-%d %H:%M:%S") of a time `now` seconds into the run
Strftime(now) == "2025-01-01 00:00:" \o ToString(now \div 10) \o ToString(now % 10)

\* a save that writes the new entry alone
save_analysis_result_overwrite(results, file, now) ==
    [out |-> Return(None),
     file |-> FileOf(JsonDump(PyList(<<
         DelItem(SetItem(results, "analysis_time", PyStr(Strftime(now))),
                 "flask_art")>>)))]

\* save_analysis_result(results) at time now: the outcome and the file afterwards
save_analysis_result(results, file, now) ==
    LET stamped == SetItem(results, "analysis_time", PyStr(Strftime(now)))
        results_with_time ==
            IF HasKey(stamped, "flask_art") THEN DelItem(stamped, "flask_art")
            ELSE stamped
        loaded == IF file.exists THEN JsonLoad(file.text) ELSE Return(PyList(<<>>))
    IN  IF loaded.exc # "" THEN [out |-> loaded, file |-> file]
        ELSE IF loaded.val.t # "list"
        THEN [out |-> Raise("AttributeError", "no attribute 'append'"), file |-> file]
        ELSE [out |-> Return(None),
              file |-> FileOf(JsonDump(
                  PyList(Append(loaded.val.v, results_with_time))))]

\* str(x) inside create_web_results' f-string
FormatValue(x) == IF x.t = "float" THEN PyStr(FloatStr(x.v)) ELSE x

\* create_web_results(results): web_results.html afterwards
create_web_results(results) ==
    FileOf([f \in {"liquid_name", "temperature", "pressure", "state",
                   "flask_state", "description"} |-> FormatValue(Get(results, f))])

----------------------------------------------------------------------------
(* The files liquids_data.json may hold when a process starts, and the     *)
(* arguments callers pass                                                  *)

\* a table someone saved earlier: a sixth substance, points with two decimals
custom_liquids ==
    PyDict(<<
        Item("helium", Liquid(PyStr("Helium (He)"), -27220, -26893)),
        Item("water", Liquid(SubscriptName("Water (H", "O)"), 0, 10000))>>)

\* parseable, but water's record lacks its boiling_point
missing_field_liquids ==
    PyDict(<<
        Item("water", PyDict(<<Item("name", PyStr("Water")),
                               Item("freezing_point", PyFloat(0))>>)),
        Item("oxygen", Liquid(SubscriptName("Oxygen (O", ")"), -21880, -18300))>>)

\* parseable, but a JSON array rather than an object
not_a_mapping == PyList(<<PyStr("water")>>)

ParseableTexts ==
    {JsonDump(get_default_liquids), JsonDump(custom_liquids),
     JsonDump(missing_field_liquids), JsonDump(not_a_mapping)}

CatalogFiles == {NoFile, FileOf(Garbage)} \cup {FileOf(x) : x \in ParseableTexts}

\* a record analyze_liquid_state can classify
WellFormed(liquid) ==
    /\ liquid.t = "dict"
    /\ HasKey(liquid, "name")
    /\ HasKey(liquid, "freezing_point") /\ Get(liquid, "freezing_point").t = "float"
    /\ HasKey(liquid, "boiling_point") /\ Get(liquid, "boiling_point").t = "float"

\* the records of all the tables above
AllLiquids ==
    UNION {{d.v[i].v : i \in 1..Len(d.v)} :
           d \in {get_default_liquids, custom_liquids, missing_field_liquids}}

\* pressures, in hundredths of an atm: invalid ones, and 0.01 to 2 atm
Pressures == {-100, 0, 1, 50, 100, 200}

\* temperatures at, just below and just above every boundary
Temperatures ==
    UNION {{Get(l, "freezing_point").v + d : d \in {-1, 0, 1}}
           \cup {calculate_pressure_effect(Get(l, "boiling_point").v, p) + d :
                 p \in {q \in Pressures : q > 0}, d \in {-1, 0, 1}} :
           l \in {x \in AllLiquids : WellFormed(x)}}
    \cup {2500, 10500, -20000, 1000}

\* the five default keys, a sixth that a saved table may hold, one that none holds
DefaultKeys == {"water", "ethanol", "mercury", "nitrogen", "oxygen"}

LiquidTypes == DefaultKeys \cup {"helium", "unobtainium"}

NoCall == [done |-> FALSE, temperature |-> 0, pressure |-> 0, liquid_type |-> "",
           out |-> Return(None)]

NoLocals == [liquid_list |-> <<>>, temperature |-> 0, pressure |-> 0,
             liquid_type |-> "", results |-> None, save_choice |-> ""]

----------------------------------------------------------------------------
(* One analyzer and one call of analyze_liquid_state *)

InitClassify ==
    \E file \in CatalogFiles :
        LET l == load_liquid_data(file)
        IN  /\ l.out.exc = ""
            /\ mode = "classify"
            /\ catalogFile = l.file
            /\ analyzer = NewAnalyzer(l.out.val)
            /\ io = [reads |-> 1, writes |-> IF l.wrote THEN 1 ELSE 0]
            /\ pc = "ready"
            /\ \E t \in Temperatures, p \in Pressures, k \in LiquidTypes :
                   call = [NoCall EXCEPT !.temperature = t, !.pressure = p,
                                         !.liquid_type = k]
            /\ resultsFile = NoFile
            /\ webFile = NoFile
            /\ prompter = None
            /\ locals = NoLocals
            /\ iter = 0
            /\ clock = 0
            /\ req = <<>>

Classify ==
    /\ mode = "classify"
    /\ ~call.done
    /\ call' = [call EXCEPT
                   !.done = TRUE,
                   !.out = analyze_liquid_state(analyzer.liquids_data,
                               call.temperature, call.pressure, call.liquid_type)]
    /\ UNCHANGED <<mode, catalogFile, resultsFile, webFile, analyzer, prompter,
                   pc, locals, iter, clock, io, req>>

NextClassify == Classify

ClassifySpec == InitClassify /\ [][NextClassify]_vars

----------------------------------------------------------------------------
(* main_server.py: the module creates one analyzer, then Flask serves      *)
(* requests concurrently, each handler running line by line against it     *)
(* (GET / only returns index.html and is left out)                         *)

\* requests the server handles in one run
MaxRequests == 2

Requests == 1..MaxRequests

ServerTemperatures == {0, 10000}

ServerPressures == {0, 100, 200}

ServerLiquids == {"water", "helium"}

IdleRequest == [pc |-> "idle", route |-> "", temperature |-> 0, pressure |-> 0,
                liquid |-> "", rec |-> None, response |-> None]

Response(status, success, body) ==
    [t |-> "Response", status |-> status, success |-> success, body |-> body]

\* lines 64-81: the response for what analyze_liquid_state returned or raised
AnalyzeResponse(out) ==
    IF out.exc = "" THEN Response(200, TRUE, out.val)
    ELSE IF out.exc \in {"ValueError", "JSONDecodeError"}
    THEN Response(400, FALSE, PyStr(out.msg))
    ELSE Response(500, FALSE, PyStr("Server error: " \o out.msg))

InitServer ==
    /\ mode = "server"
    /\ catalogFile \in CatalogFiles
    /\ analyzer = None
    /\ io = [reads |-> 0, writes |-> 0]
    /\ pc = "import"
    /\ req = [r \in Requests |-> IdleRequest]
    /\ call = NoCall
    /\ resultsFile = NoFile
    /\ webFile = NoFile
    /\ prompter = None
    /\ locals = NoLocals
    /\ iter = 0
    /\ clock = 0

\* line 14: analyzer = LiquidAnalyzer(); an exception ends the import
ServerStart ==
    /\ mode = "server" /\ pc = "import"
    /\ LET l == load_liquid_data(catalogFile)
       IN  /\ catalogFile' = l.file
           /\ io' = [reads |-> io.reads + 1,
                     writes |-> io.writes + (IF l.wrote THEN 1 ELSE 0)]
           /\ IF l.out.exc = ""
              THEN analyzer' = NewAnalyzer(l.out.val) /\ pc' = "serving"
              ELSE analyzer' = analyzer /\ pc' = "crashed"
    /\ UNCHANGED <<mode, resultsFile, webFile, prompter, locals, iter, clock,
                   req, call>>

ServerUnchanged ==
    UNCHANGED <<mode, catalogFile, resultsFile, webFile, analyzer, prompter, pc,
                locals, iter, clock, io, call>>

\* GET /api/liquids
get_liquids(r) ==
    /\ mode = "server" /\ pc = "serving" /\ req[r].pc = "idle"
    /\ req' = [req EXCEPT ![r] = [@ EXCEPT
                  !.pc = "done", !.route = "liquids",
                  !.response = Response(200, TRUE, get_available_liquids(analyzer))]]
    /\ ServerUnchanged

\* GET /api/health
health_check(r) ==
    /\ mode = "server" /\ pc = "serving" /\ req[r].pc = "idle"
    /\ req' = [req EXCEPT ![r] = [@ EXCEPT
                  !.pc = "done", !.route = "health",
                  !.response = Response(200, TRUE, PyStr("healthy"))]]
    /\ ServerUnchanged

\* POST /api/analyze, lines 51-58: the body's three fields; a temperature or
\* pressure that float() rejects is a ValueError
AnalyzeParse(r) ==
    /\ mode = "server" /\ pc = "serving" /\ req[r].pc = "idle"
    /\ \/ \E t \in ServerTemperatures, p \in ServerPressures, k \in ServerLiquids :
              req' = [req EXCEPT ![r] = [@ EXCEPT
                         !.pc = "parsed", !.route = "analyze",
                         !.temperature = t, !.pressure = p, !.liquid = k]]
       \/ req' = [req EXCEPT ![r] = [@ EXCEPT
                     !.pc = "done", !.route = "analyze",
                     !.response = AnalyzeResponse(
                         Raise("ValueError", "could not convert string to float"))]]
    /\ ServerUnchanged

\* liquid_analyzer.py lines 129-135, called from line 61
AnalyzeCheck(r) ==
    /\ mode = "server" /\ pc = "serving" /\ req[r].pc = "parsed"
    /\ LET out == CheckArguments(analyzer.liquids_data, req[r].pressure, req[r].liquid)
       IN  req' = [req EXCEPT ![r] =
                      IF out.exc = "" THEN [@ EXCEPT !.pc = "checked"]
                      ELSE [@ EXCEPT !.pc = "done", !.response = AnalyzeResponse(out)]]
    /\ ServerUnchanged

\* a lookup that stores the adjusted boiling point back into the shared table
AnalyzeReadCaching(r) ==
    /\ mode = "server" /\ pc = "serving" /\ req[r].pc = "checked"
    /\ LET data == analyzer.liquids_data
           out  == ReadLiquid(data, req[r].pressure, req[r].liquid)
       IN  /\ req' = [req EXCEPT ![r] =
                         IF out.exc = "" THEN [@ EXCEPT !.pc = "read", !.rec = out.val]
                         ELSE [@ EXCEPT !.pc = "done",
                                        !.response = AnalyzeResponse(out)]]
           /\ analyzer' =
                  IF out.exc = ""
                  THEN NewAnalyzer(SetItem(data, req[r].liquid,
                           SetItem(out.val.liquid, "boiling_point",
                                   PyFloat(out.val.actual_boiling_point))))
                  ELSE analyzer
    /\ UNCHANGED <<mode, catalogFile, resultsFile, webFile, prompter, pc,
                   locals, iter, clock, io, call>>

\* liquid_analyzer.py lines 137-145
AnalyzeRead(r) ==
    /\ mode = "server" /\ pc = "serving" /\ req[r].pc = "checked"
    /\ LET out == ReadLiquid(analyzer.liquids_data, req[r].pressure, req[r].liquid)
       IN  req' = [req EXCEPT ![r] =
                      IF out.exc = "" THEN [@ EXCEPT !.pc = "read", !.rec = out.val]
                      ELSE [@ EXCEPT !.pc = "done", !.response = AnalyzeResponse(out)]]
    /\ ServerUnchanged

\* liquid_analyzer.py lines 147-180, then main_server.py lines 64-81
AnalyzeReturn(r) ==
    /\ mode = "server" /\ pc = "serving" /\ req[r].pc = "read"
    /\ req' = [req EXCEPT ![r] = [@ EXCEPT
                  !.pc = "done",
                  !.response = AnalyzeResponse(
                      BuildResults(req[r].temperature, req[r].pressure, req[r].rec))]]
    /\ ServerUnchanged

NextServer ==
    \/ ServerStart
    \/ \E r \in Requests :
           \/ get_liquids(r)
           \/ health_check(r)
           \/ AnalyzeParse(r)
           \/ AnalyzeCheck(r)
           \/ AnalyzeRead(r)
           \/ AnalyzeReturn(r)

ServerSpec == InitServer /\ [][NextServer]_vars

----------------------------------------------------------------------------
(* liquid_analyzer.py main(): the terminal program *)

\* prompt-loop iterations in one run
MaxIter == 2

TerminalTemperatures == {2500}

TerminalPressures == {0, 100}

\* the seconds at which a save may read the clock
Seconds == {0, 1}

\* analysis_results.json as an earlier run left it: one saved result
PriorLog ==
    save_analysis_result(
        analyze_liquid_state(get_default_liquids, 2500, 100, "water").val,
        NoFile, 0).file

ResultFiles == {NoFile, PriorLog, FileOf(Garbage)}

\* get_user_input lines 280-283: the keys, after printing every name
ListLiquids(liquids) ==
    IF liquids.t # "dict"
    THEN Raise("AttributeError", "'list' object has no attribute 'keys'")
    ELSE IF \E i \in 1..Len(liquids.v) : liquids.v[i].v.t # "dict"
    THEN Raise("TypeError", "object is not subscriptable")
    ELSE IF \E i \in 1..Len(liquids.v) : ~HasKey(liquids.v[i].v, "name")
    THEN Raise("KeyError", "name")
    ELSE Return(Keys(liquids))

Init ==
    /\ mode = "terminal"
    /\ catalogFile \in CatalogFiles
    /\ resultsFile \in ResultFiles
    /\ webFile = NoFile
    /\ analyzer = None
    /\ prompter = None
    /\ pc = "start"
    /\ locals = NoLocals
    /\ iter = 0
    /\ clock = 0
    /\ io = [reads |-> 0, writes |-> 0]
    /\ req = <<>>
    /\ call = NoCall

\* line 343: analyzer = LiquidAnalyzer(); line 376 catches what it raises
MainStart ==
    /\ mode = "terminal" /\ pc = "start"
    /\ LET l == load_liquid_data(catalogFile)
       IN  /\ catalogFile' = l.file
           /\ io' = [reads |-> io.reads + 1,
                     writes |-> io.writes + (IF l.wrote THEN 1 ELSE 0)]
           /\ IF l.out.exc = ""
              THEN analyzer' = NewAnalyzer(l.out.val) /\ pc' = "ask_web"
              ELSE analyzer' = analyzer /\ pc' = "exit"
    /\ UNCHANGED <<mode, resultsFile, webFile, prompter, locals, iter, clock,
                   req, call>>

\* lines 346-348: open_web_interface changes nothing the program keeps
AskWeb ==
    /\ mode = "terminal" /\ pc = "ask_web"
    /\ \E web_choice \in {"y", "n"} : pc' = "get_user_input"
    /\ UNCHANGED <<mode, catalogFile, resultsFile, webFile, analyzer, prompter,
                   locals, iter, clock, io, req, call>>

\* line 352 and get_user_input lines 275-283: a new LiquidAnalyzer, loaded
\* again, supplies the menu
GetUserInput ==
    /\ mode = "terminal" /\ pc = "get_user_input"
    /\ iter' = iter + 1
    /\ LET l == load_liquid_data(catalogFile)
           listed == ListLiquids(l.out.val)
       IN  /\ catalogFile' = l.file
           /\ io' = [reads |-> io.reads + 1,
                     writes |-> io.writes + (IF l.wrote THEN 1 ELSE 0)]
           /\ IF l.out.exc # ""
              THEN prompter' = prompter /\ locals' = locals /\ pc' = "exit"
              ELSE /\ prompter' = NewAnalyzer(l.out.val)
                   /\ IF listed.exc # ""
                      THEN locals' = locals /\ pc' = "exit"
                      ELSE /\ locals' = [locals EXCEPT !.liquid_list = listed.val]
                           /\ pc' = "ask_liquid"
    /\ UNCHANGED <<mode, resultsFile, webFile, analyzer, clock, req, call>>

TerminalUnchanged ==
    UNCHANGED <<mode, catalogFile, resultsFile, webFile, analyzer, prompter,
                iter, clock, io, req, call>>

\* lines 286-296: a number outside 1..len(liquid_list) is asked for again
AskLiquid ==
    /\ mode = "terminal" /\ pc = "ask_liquid"
    /\ \E choice_num \in 0..(Len(locals.liquid_list) + 1) :
           IF 1 <= choice_num /\ choice_num <= Len(locals.liquid_list)
           THEN /\ locals' = [locals EXCEPT
                                 !.liquid_type = locals.liquid_list[choice_num]]
                /\ pc' = "ask_temperature"
           ELSE UNCHANGED <<locals, pc>>
    /\ TerminalUnchanged

\* lines 299-304
AskTemperature ==
    /\ mode = "terminal" /\ pc = "ask_temperature"
    /\ \E t \in TerminalTemperatures :
           locals' = [locals EXCEPT !.temperature = t]
    /\ pc' = "ask_pressure"
    /\ TerminalUnchanged

\* lines 307-322: a pressure <= 0 is asked for again
AskPressure ==
    /\ mode = "terminal" /\ pc = "ask_pressure"
    /\ \E p \in TerminalPressures :
           IF p > 0
           THEN locals' = [locals EXCEPT !.pressure = p] /\ pc' = "analyze"
           ELSE UNCHANGED <<locals, pc>>
    /\ TerminalUnchanged

\* lines 355-361: analyze with main()'s analyzer, display, create_web_results
Analyze ==
    /\ mode = "terminal" /\ pc = "analyze"
    /\ LET out == analyze_liquid_state(analyzer.liquids_data, locals.temperature,
                                       locals.pressure, locals.liquid_type)
       IN  IF out.exc # ""
           THEN pc' = "exit" /\ UNCHANGED <<locals, webFile>>
           ELSE /\ locals' = [locals EXCEPT !.results = out.val]
                /\ webFile' = create_web_results(out.val)
                /\ pc' = "ask_save"
    /\ UNCHANGED <<mode, catalogFile, resultsFile, analyzer, prompter, iter,
                   clock, io, req, call>>

\* lines 364-366: save_analysis_result only on "y", at the time the clock shows
AskSave ==
    /\ mode = "terminal" /\ pc = "ask_save"
    /\ \/ /\ locals' = [locals EXCEPT !.save_choice = "n"]
          /\ pc' = "ask_continue"
          /\ UNCHANGED <<resultsFile, clock>>
       \/ \E now \in {n \in Seconds : n >= clock} :
              LET saved == save_analysis_result(locals.results, resultsFile, now)
              IN  /\ locals' = [locals EXCEPT !.save_choice = "y"]
                  /\ clock' = now
                  /\ resultsFile' = saved.file
                  /\ pc' = IF saved.out.exc = "" THEN "ask_continue" ELSE "exit"
    /\ UNCHANGED <<mode, catalogFile, webFile, analyzer, prompter, iter, io,
                   req, call>>

\* lines 369-372
AskContinue ==
    /\ mode = "terminal" /\ pc = "ask_continue"
    /\ \/ iter < MaxIter /\ pc' = "get_user_input"
       \/ pc' = "exit"
    /\ UNCHANGED <<mode, catalogFile, resultsFile, webFile, analyzer, prompter,
                   locals, iter, clock, io, req, call>>

Next ==
    \/ MainStart
    \/ AskWeb
    \/ GetUserInput
    \/ AskLiquid
    \/ AskTemperature
    \/ AskPressure
    \/ Analyze
    \/ AskSave
    \/ AskContinue

Spec == Init /\ [][Next]_vars

----------------------------------------------------------------------------
(* Properties of analyze_liquid_state (ClassifySpec) *)

CallData == analyzer.liquids_data

CallKnown == CallData.t = "dict" /\ HasKey(CallData, call.liquid_type)

\* the call has returned, for a well-formed record and a pressure above 0
Classified ==
    /\ call.done
    /\ call.pressure > 0
    /\ CallKnown
    /\ WellFormed(Get(CallData, call.liquid_type))

CallFreezing == Get(Get(CallData, call.liquid_type), "freezing_point").v

CallBoiling == Get(Get(CallData, call.liquid_type), "boiling_point").v

\* nominal + (pressure - 1.0) * 10.0, written out from the rule
CallAdjusted == CallBoiling + (call.pressure - 100) * 10

CallState == Get(call.out.val, "state")

CallTag == Get(call.out.val, "flask_state")

CallReported == Get(call.out.val, "boiling_point_actual").v

UnknownRaised ==
    /\ call.out.exc = "ValueError"
    /\ call.out.msg = "Unknown liquid: " \o call.liquid_type

PressureRaised ==
    /\ call.out.exc = "ValueError"
    /\ call.out.msg = "Pressure must be greater than 0"

\* C1: for a catalog record and a pressure above 0 the call returns SOLID/frozen
\* when temperature <= freezing point, else GAS/boiling when temperature >=
\* nominal boiling point + (pressure - 1.0) * 10.0, else LIQUID/still.
C1_FirstMatch ==
    Classified =>
        /\ call.out.exc = ""
        /\ <<CallState, CallTag>> =
               IF call.temperature <= CallFreezing
               THEN <<PyStr("SOLID"), PyStr("frozen")>>
               ELSE IF call.temperature >= CallAdjusted
               THEN <<PyStr("GAS"), PyStr("boiling")>>
               ELSE <<PyStr("LIQUID"), PyStr("still")>>

\* water at 105.0 and 2.0 atm is LIQUID below its adjusted 110.0
C1_Witness ==
    /\ Classified
    /\ analyzer.liquids_data = get_default_liquids
    /\ call.liquid_type = "water" /\ call.temperature = 10500 /\ call.pressure = 200
    /\ CallState = PyStr("LIQUID") /\ CallTag = PyStr("still")
    /\ CallReported = 11000

\* C2 as stated: at the freezing point SOLID, and at the adjusted boiling point
\* GAS, for every record and every pressure above 0.
C2_Original ==
    Classified =>
        /\ call.temperature = CallFreezing => CallState = PyStr("SOLID")
        /\ call.temperature = CallAdjusted => CallState = PyStr("GAS")

\* C2: at the freezing point the state is SOLID; at the adjusted boiling point
\* it is GAS when that point lies above the freezing point and SOLID when it
\* does not (the first branch wins); it is LIQUID at neither; for the five
\* defaults the adjusted boiling point is above the freezing point at every
\* pressure above 0.
C2_Ties ==
    Classified =>
        /\ call.temperature = CallFreezing => CallState = PyStr("SOLID")
        /\ call.temperature = CallAdjusted =>
               CallState = IF CallAdjusted > CallFreezing
                           THEN PyStr("GAS") ELSE PyStr("SOLID")
        /\ (CallData = get_default_liquids /\ call.temperature = CallAdjusted)
               => CallState = PyStr("GAS")

\* a tie at the adjusted boiling point that is GAS
C2_Witness ==
    /\ Classified
    /\ call.temperature = CallAdjusted
    /\ call.pressure # 100
    /\ CallState = PyStr("GAS")

\* C3 as stated: a pressure <= 0 fails with the pressure error whatever the key,
\* and the unknown-key error arises only with a pressure above 0.
C3_Original ==
    call.done =>
        /\ call.pressure <= 0 => PressureRaised
        /\ UnknownRaised => (call.pressure > 0 /\ ~Contains(CallData, call.liquid_type))

\* C3: the key is checked first: a key absent from the catalog fails with the
\* unknown-liquid error whatever the pressure, and the pressure error is raised
\* exactly when the key is present and the pressure is <= 0.
C3_KeyFirst ==
    call.done =>
        /\ ~Contains(CallData, call.liquid_type) => UnknownRaised
        /\ PressureRaised <=>
               (Contains(CallData, call.liquid_type) /\ call.pressure <= 0)

\* an unknown key together with a pressure <= 0
C3_Witness ==
    /\ call.done
    /\ ~Contains(CallData, call.liquid_type)
    /\ call.pressure <= 0
    /\ UnknownRaised

\* C4 as stated: whatever load() returned, a key outside the default five fails
\* with the unknown-liquid error at every pressure above 0.
C4_Original ==
    (call.done /\ call.pressure > 0 /\ call.liquid_type \notin DefaultKeys)
        => UnknownRaised

\* C4: a key that is not in the loaded catalog fails with the unknown-liquid
\* error; when liquids_data.json was absent at load (so load wrote it) the
\* catalog holds the default five and every key outside them fails.
C4_UnknownKey ==
    call.done =>
        /\ ~Contains(CallData, call.liquid_type) => UnknownRaised
        /\ (io.writes = 1 /\ call.liquid_type \notin DefaultKeys) => UnknownRaised
        /\ UnknownRaised => ~Contains(CallData, call.liquid_type)

\* classify(10.0, 1.0, "helium") on the defaults
C4_Witness ==
    /\ call.done
    /\ io.writes = 1
    /\ call.liquid_type = "helium" /\ call.temperature = 1000 /\ call.pressure = 100
    /\ UnknownRaised

----------------------------------------------------------------------------
(* Properties of the terminal program (Spec) *)

\* the entries of analysis_results.json, as json.load reads them
LogEntries(file) ==
    IF file.exists /\ file.text.j = "arr" THEN JsonValue(file.text).v ELSE <<>>

\* C5: in every run liquids_data.json is read exactly once, at process start,
\* and written at most once; no later prompt-loop iteration, classify or save
\* reads or writes it again.
C5_ReadOnce ==
    pc # "start" =>
        /\ io.reads = 1
        /\ io.writes <= 1

\* C6: when liquids_data.json does not exist, load() returns the five defaults
\* and writes them, and the next load() returns an equal catalog, with the same
\* keys in the same order, and writes nothing.
C6_LoadTwice ==
    io.writes >= 1 =>
        /\ io.writes = 1
        /\ analyzer.liquids_data = get_default_liquids
        /\ Keys(analyzer.liquids_data)
               = <<"water", "ethanol", "mercury", "nitrogen", "oxygen">>
        /\ catalogFile.exists
        /\ prompter # None =>
               /\ io.reads >= 2
               /\ prompter.liquids_data = analyzer.liquids_data
               /\ Keys(prompter.liquids_data) = Keys(analyzer.liquids_data)
               /\ locals.liquid_list = Keys(analyzer.liquids_data)

\* the file was absent, the first load wrote it and the second load read it
C6_Witness ==
    /\ io.writes = 1 /\ io.reads = 2
    /\ prompter # None
    /\ Get(Get(prompter.liquids_data, "ethanol"), "freezing_point") = PyFloat(-11410)
    /\ Get(Get(prompter.liquids_data, "water"), "name")
           = PyStrU(<<[a |-> "Water (H", u |-> 8322], [a |-> "O)", u |-> 0]>>)

\* the entry a save appends for `results`: every field but flask_art, unchanged,
\* and then analysis_time
IsEntryOf(entry, results) ==
    /\ entry.t = "dict"
    /\ Keys(entry) = SelectSeq(Keys(results), LAMBDA k : k # "flask_art")
                         \o <<"analysis_time">>
    /\ \A i \in 1..(Len(entry.v) - 1) : entry.v[i].v = Get(results, entry.v[i].k)
    /\ Get(entry, "analysis_time").t = "str"

\* C9: analysis_results.json changes only when the user answers "y" to the
\* save prompt; that save leaves every earlier entry as it was and where it
\* was, adds exactly one entry at the end (the results without flask_art,
\* with analysis_time) and leaves the caller's results object unchanged.
C9_AppendOnly ==
    [][/\ resultsFile' # resultsFile =>
              /\ pc = "ask_save" /\ locals'.save_choice = "y"
              /\ Len(LogEntries(resultsFile')) = Len(LogEntries(resultsFile)) + 1
              /\ SubSeq(LogEntries(resultsFile'), 1, Len(LogEntries(resultsFile)))
                     = LogEntries(resultsFile)
              /\ IsEntryOf(LogEntries(resultsFile')[Len(LogEntries(resultsFile'))],
                           locals.results)
              /\ locals'.results = locals.results
              /\ HasKey(locals'.results, "flask_art")
       /\ (pc = "ask_save" /\ pc' = "ask_continue" /\ locals'.save_choice = "y")
              => resultsFile' # resultsFile
      ]_vars

\* a save has appended a second entry behind an earlier one
C9_Witness ==
    /\ pc = "ask_continue" /\ locals.save_choice = "y"
    /\ Len(LogEntries(resultsFile)) = 2
    /\ IsEntryOf(LogEntries(resultsFile)[2], locals.results)
    /\ Get(LogEntries(resultsFile)[1], "liquid_name")
           # Get(LogEntries(resultsFile)[2], "liquid_name")

----------------------------------------------------------------------------
(* Properties of the server (ServerSpec) *)

Unparseable(file) == file.exists /\ file.text.j = "garbage"

\* a mapping from key to a record with name, freezing_point and boiling_point
ProperCatalog(data) ==
    /\ data.t = "dict"
    /\ \A i \in 1..Len(data.v) : WellFormed(data.v[i].v)

WrongShape(file) ==
    /\ file.exists
    /\ file.text.j # "garbage"
    /\ ~ProperCatalog(JsonValue(file.text))

NoneServed == \A r \in Requests : req[r].pc = "idle"

\* request r is an analyze call whose three arguments were read
Analyzing(r) == req[r].route = "analyze" /\ req[r].liquid # ""

C8_Pure ==
    /\ [](\A r \in Requests :
            (req[r].pc = "done" /\ Analyzing(r))
                => req[r].response =
                       AnalyzeResponse(analyze_liquid_state(analyzer.liquids_data,
                           req[r].temperature, req[r].pressure, req[r].liquid)))
    /\ [][pc = "serving"
            => UNCHANGED <<analyzer, catalogFile, resultsFile, webFile>>]_vars

\* one call has answered while another, for another liquid, is between steps
C8_Witness ==
    /\ req[1].pc = "done" /\ Analyzing(1) /\ req[1].response.status = 200
    /\ req[2].pc = "read" /\ req[2].liquid # req[1].liquid

====
